---------------------------- MODULE Spec2Model ----------------------------
(***************************************************************************)
(* Checkpoint store of drizzle-storage: one AgentCheckpointProvider bound  *)
(* to one relational backend (SQLite, MySQL or PostgreSQL).  The state is  *)
(* the AgentState table of that backend plus the outcome of the last call  *)
(* made on the provider.  Texts that the code converts (identifiers, JSON  *)
(* columns) are sequences of one-character strings, so that formatting and *)
(* parsing are computed, character by character, the way the code does.    *)
(***************************************************************************)
EXTENDS Integers, Sequences, FiniteSets

(***************************************************************************)
(* Bounds of the model.                                                    *)
(***************************************************************************)
MaxStores == 3

MaxProviders == 2

(***************************************************************************)
(* Characters and decimal rendering: Number.prototype.toString on an       *)
(* integer (row.id.toString(), insertId.toString()).                       *)
(***************************************************************************)
DigitChars == <<"0", "1", "2", "3", "4", "5", "6", "7", "8", "9">>

IsDigit(c) == \E d \in 1..10 : DigitChars[d] = c

DigitVal(c) == (CHOOSE d \in 1..10 : DigitChars[d] = c) - 1

RECURSIVE NatToString(_)
NatToString(n) ==
    IF n < 10 THEN <<DigitChars[n + 1]>>
    ELSE NatToString(n \div 10) \o <<DigitChars[(n % 10) + 1]>>

toString(n) == IF n < 0 THEN <<"-">> \o NatToString(0 - n) ELSE NatToString(n)

(***************************************************************************)
(* Number(id): the ECMAScript StringToNumber conversion on the alphabet of *)
(* IdChars.  Leading and trailing white space is trimmed, the empty text   *)
(* is 0, a signed decimal literal with an optional fraction is its value,  *)
(* and anything else is NaN.  The result is an integer, a finite           *)
(* non-integer ("frac") or NaN.                                            *)
(***************************************************************************)
RECURSIVE TrimLeft(_)
TrimLeft(s) == IF s # <<>> /\ Head(s) = " " THEN TrimLeft(Tail(s)) ELSE s

RECURSIVE TrimRight(_)
TrimRight(s) ==
    IF s # <<>> /\ s[Len(s)] = " " THEN TrimRight(SubSeq(s, 1, Len(s) - 1)) ELSE s

Trim(s) == TrimRight(TrimLeft(s))

AllDigits(s) == \A i \in 1..Len(s) : IsDigit(s[i])

AllZeros(s) == \A i \in 1..Len(s) : s[i] = "0"

RECURSIVE DigitsValue(_)
DigitsValue(s) ==
    IF s = <<>> THEN 0
    ELSE DigitsValue(SubSeq(s, 1, Len(s) - 1)) * 10 + DigitVal(s[Len(s)])

NaN == [k |-> "nan", v |-> 0]

DotPositions(s) == {i \in 1..Len(s) : s[i] = "."}

UnsignedNumber(s) ==
    IF DotPositions(s) = {} THEN
        IF s # <<>> /\ AllDigits(s) THEN [k |-> "int", v |-> DigitsValue(s)] ELSE NaN
    ELSE
        LET p    == CHOOSE i \in DotPositions(s) : TRUE
            ip   == SubSeq(s, 1, p - 1)
            fp   == SubSeq(s, p + 1, Len(s))
        IN  IF Cardinality(DotPositions(s)) = 1 /\ AllDigits(ip) /\ AllDigits(fp)
               /\ (ip # <<>> \/ fp # <<>>)
            THEN IF AllZeros(fp) THEN [k |-> "int", v |-> DigitsValue(ip)]
                 ELSE [k |-> "frac", v |-> DigitsValue(ip)]
            ELSE NaN

Negate(n) == IF n.k = "int" THEN [k |-> "int", v |-> 0 - n.v] ELSE n

Number(s) ==
    LET t == Trim(s)
    IN  IF t = <<>> THEN [k |-> "int", v |-> 0]
        ELSE IF Head(t) = "-" THEN Negate(UnsignedNumber(Tail(t)))
        ELSE IF Head(t) = "+" THEN UnsignedNumber(Tail(t))
        ELSE UnsignedNumber(t)

(***************************************************************************)
(* JavaScript values handed to JSON.stringify and returned by JSON.parse.  *)
(* A value is a tagged record; strings and object keys are sequences of    *)
(* characters, arrays are sequences of values, and objects are sequences   *)
(* of <<key, value>> pairs in property order.                              *)
(***************************************************************************)
JNull == [t |-> "null"]

JBool(b) == [t |-> "bool", b |-> b]

JNum(n) == [t |-> "num", n |-> n]

JStr(s) == [t |-> "str", s |-> s]

JArr(a) == [t |-> "arr", a |-> a]

JObj(o) == [t |-> "obj", o |-> o]

(***************************************************************************)
(* JSON.stringify(value).  QuoteJSONString escapes the quote and the       *)
(* backslash; numbers are integers rendered in decimal.                    *)
(***************************************************************************)
RECURSIVE EscapeChars(_)
EscapeChars(s) ==
    IF s = <<>> THEN <<>>
    ELSE (IF Head(s) = "\"" \/ Head(s) = "\\" THEN <<"\\", Head(s)>> ELSE <<Head(s)>>)
         \o EscapeChars(Tail(s))

QuoteJSONString(s) == <<"\"">> \o EscapeChars(s) \o <<"\"">>

RECURSIVE SerializeJSONProperty(_)
RECURSIVE SerializeJSONArray(_)
RECURSIVE SerializeJSONObject(_)
SerializeJSONProperty(v) ==
    CASE v.t = "null" -> <<"n", "u", "l", "l">>
      [] v.t = "bool" -> IF v.b THEN <<"t", "r", "u", "e">> ELSE <<"f", "a", "l", "s", "e">>
      [] v.t = "num"  -> toString(v.n)
      [] v.t = "str"  -> QuoteJSONString(v.s)
      [] v.t = "arr"  -> <<"[">> \o SerializeJSONArray(v.a) \o <<"]">>
      [] v.t = "obj"  -> <<"{">> \o SerializeJSONObject(v.o) \o <<"}">>

SerializeJSONArray(a) ==
    IF a = <<>> THEN <<>>
    ELSE SerializeJSONProperty(Head(a))
         \o (IF Tail(a) = <<>> THEN <<>> ELSE <<",">> \o SerializeJSONArray(Tail(a)))

SerializeJSONObject(o) ==
    IF o = <<>> THEN <<>>
    ELSE QuoteJSONString(Head(o)[1]) \o <<":">> \o SerializeJSONProperty(Head(o)[2])
         \o (IF Tail(o) = <<>> THEN <<>> ELSE <<",">> \o SerializeJSONObject(Tail(o)))

(***************************************************************************)
(* JSON.stringify of an optional value: `undefined` (the empty sequence)   *)
(* is rendered as `undefined`, that is as no text at all; a value <<v>> is *)
(* rendered as the one-element sequence holding its text.                  *)
(***************************************************************************)
JSONStringify(opt) == IF opt = <<>> THEN <<>> ELSE <<SerializeJSONProperty(opt[1])>>

(***************************************************************************)
(* JSON.parse(text): a recursive-descent parser over the characters.  Each *)
(* parser returns [ok, v, rest]; ok = FALSE is the SyntaxError.            *)
(***************************************************************************)
ParseFail == [ok |-> FALSE, v |-> JNull, rest |-> <<>>]

ParseOk(v, rest) == [ok |-> TRUE, v |-> v, rest |-> rest]

RECURSIVE SkipWs(_)
SkipWs(s) == IF s # <<>> /\ Head(s) = " " THEN SkipWs(Tail(s)) ELSE s

StartsWith(s, w) == Len(s) >= Len(w) /\ SubSeq(s, 1, Len(w)) = w

Drop(s, n) == SubSeq(s, n + 1, Len(s))

ParseLiteral(s, w, v) == IF StartsWith(s, w) THEN ParseOk(v, Drop(s, Len(w))) ELSE ParseFail

RECURSIVE DigitPrefixLen(_)
DigitPrefixLen(s) == IF s # <<>> /\ IsDigit(Head(s)) THEN 1 + DigitPrefixLen(Tail(s)) ELSE 0

ParseUnsigned(s) ==
    IF s = <<>> \/ ~IsDigit(Head(s)) THEN ParseFail
    ELSE IF Head(s) = "0" THEN ParseOk(JNum(0), Tail(s))
    ELSE LET n == DigitPrefixLen(s)
         IN  ParseOk(JNum(DigitsValue(SubSeq(s, 1, n))), Drop(s, n))

ParseNumber(s) ==
    IF s # <<>> /\ Head(s) = "-"
    THEN LET r == ParseUnsigned(Tail(s))
         IN  IF r.ok THEN ParseOk(JNum(0 - r.v.n), r.rest) ELSE ParseFail
    ELSE ParseUnsigned(s)

RECURSIVE ParseChars(_, _)
ParseChars(s, acc) ==
    IF s = <<>> THEN ParseFail
    ELSE IF Head(s) = "\"" THEN ParseOk(JStr(acc), Tail(s))
    ELSE IF Head(s) = "\\" THEN
        IF Len(s) >= 2 /\ s[2] \in {"\"", "\\", "/"}
        THEN ParseChars(Drop(s, 2), Append(acc, s[2]))
        ELSE ParseFail
    ELSE ParseChars(Tail(s), Append(acc, Head(s)))

KeyPositions(o, k) == {i \in 1..Len(o) : o[i][1] = k}

PutMember(o, k, v) ==
    IF KeyPositions(o, k) = {} THEN Append(o, <<k, v>>)
    ELSE [i \in 1..Len(o) |-> IF o[i][1] = k THEN <<k, v>> ELSE o[i]]

RECURSIVE ParseValue(_)
RECURSIVE ParseArrayTail(_, _)
RECURSIVE ParseMember(_, _)
RECURSIVE ParseObjectTail(_, _)
ParseValue(s0) ==
    LET s == SkipWs(s0)
    IN  IF s = <<>> THEN ParseFail
        ELSE CASE Head(s) = "n" -> ParseLiteral(s, <<"n", "u", "l", "l">>, JNull)
               [] Head(s) = "t" -> ParseLiteral(s, <<"t", "r", "u", "e">>, JBool(TRUE))
               [] Head(s) = "f" -> ParseLiteral(s, <<"f", "a", "l", "s", "e">>, JBool(FALSE))
               [] Head(s) = "\"" -> ParseChars(Tail(s), <<>>)
               [] Head(s) = "[" ->
                    LET s1 == SkipWs(Tail(s))
                    IN  IF s1 # <<>> /\ Head(s1) = "]" THEN ParseOk(JArr(<<>>), Tail(s1))
                        ELSE LET r == ParseValue(s1)
                             IN  IF r.ok THEN ParseArrayTail(r.rest, <<r.v>>) ELSE ParseFail
               [] Head(s) = "{" ->
                    LET s1 == SkipWs(Tail(s))
                    IN  IF s1 # <<>> /\ Head(s1) = "}" THEN ParseOk(JObj(<<>>), Tail(s1))
                        ELSE ParseMember(s1, <<>>)
               [] OTHER -> ParseNumber(s)

ParseArrayTail(s0, acc) ==
    LET s == SkipWs(s0)
    IN  IF s = <<>> THEN ParseFail
        ELSE IF Head(s) = "]" THEN ParseOk(JArr(acc), Tail(s))
        ELSE IF Head(s) = "," THEN
            LET r == ParseValue(Tail(s))
            IN  IF r.ok THEN ParseArrayTail(r.rest, Append(acc, r.v)) ELSE ParseFail
        ELSE ParseFail

ParseMember(s0, acc) ==
    LET s == SkipWs(s0)
    IN  IF s = <<>> \/ Head(s) # "\"" THEN ParseFail
        ELSE LET k  == ParseChars(Tail(s), <<>>)
                 s1 == SkipWs(k.rest)
             IN  IF ~k.ok \/ s1 = <<>> \/ Head(s1) # ":" THEN ParseFail
                 ELSE LET r == ParseValue(Tail(s1))
                      IN  IF r.ok THEN ParseObjectTail(r.rest, PutMember(acc, k.v.s, r.v))
                          ELSE ParseFail

ParseObjectTail(s0, acc) ==
    LET s == SkipWs(s0)
    IN  IF s = <<>> THEN ParseFail
        ELSE IF Head(s) = "}" THEN ParseOk(JObj(acc), Tail(s))
        ELSE IF Head(s) = "," THEN ParseMember(Tail(s), acc)
        ELSE ParseFail

JSONParse(text) ==
    LET r == ParseValue(text)
    IN  IF r.ok /\ SkipWs(r.rest) = <<>> THEN ParseOk(r.v, <<>>) ELSE ParseFail

(***************************************************************************)
(* Inputs.  A NamedAgentCheckpoint is [agentId, name, config, state,       *)
(* createdAt]; config is optional: <<>> when the payload has no config,    *)
(* <<v>> when it has one.                                                  *)
(***************************************************************************)
Backends == {"sqlite", "mysql", "postgres"}

StateCount == JObj(<< << <<"c", "o", "u", "n", "t">>, JNum(1) >> >>)

StateNested ==
    JObj(<< << <<"h", "i">>, JObj(<< << <<"x">>, JArr(<<JStr(<<"a", "\"", "b">>), JBool(TRUE), JNull>>) >> >>) >>,
            << <<"t">>, JArr(<<JStr(<<"f", "o", "o">>)>>) >> >>)

StateText == JStr(<<"a", "\\", "\"", " ", "b">>)

StateList == JArr(<<JNum(12), JBool(FALSE), JObj(<<>>), JNum(0 - 7)>>)

ConfigFoo == JObj(<< << <<"f", "o", "o">>, JStr(<<"b", "a", "r">>) >> >>)

ConfigEmpty == JObj(<<>>)

NamedCheckpoint(agentId, name, config, state, createdAt) ==
    [agentId |-> agentId, name |-> name, config |-> config, state |-> state,
     createdAt |-> createdAt]

JCircular == [t |-> "circular"]

StateCircular == JObj(<< << <<"s", "e", "l", "f">>, JCircular >> >>)

RECURSIVE Serializable(_)
Serializable(v) ==
    CASE v.t = "circular" -> FALSE
      [] v.t = "arr" -> \A i \in DOMAIN v.a : Serializable(v.a[i])
      [] v.t = "obj" -> \A i \in DOMAIN v.o : Serializable(v.o[i][2])
      [] OTHER -> TRUE

Payloads ==
    { NamedCheckpoint("a1", "s1", <<>>,            StateCount,    1000),
      NamedCheckpoint("a1", "s1", <<ConfigFoo>>,   StateList,     3000),
      NamedCheckpoint("a2", "s2", <<ConfigEmpty>>, StateNested,   2000),
      NamedCheckpoint("a2", "s1", <<JNull>>,       StateText,     2000),
      NamedCheckpoint("a2", "s2", <<>>,            JNull,         3000),
      NamedCheckpoint("a1", "s2", <<ConfigFoo>>,   StateCircular, 2000),
      NamedCheckpoint("a2", "s1", <<JCircular>>,   StateCount,    3000) }

IdInputs ==
    { <<"1">>, <<"2">>, <<"3">>, <<"4">>, <<"9", "9", "9", "9", "9", "9">>,
      <<"0", "1">>, <<" ", "1">>, <<"1", ".", "0">>, <<"+", "2">>,
      <<>>, <<"a", "b", "c">>, <<"1", ".", "5">>, <<"-", "1">> }

(***************************************************************************)
(* State.                                                                  *)
(*   backend     the engine behind the provider                            *)
(*   strictMode  the MySQL server's sql_mode has STRICT_TRANS_TABLES       *)
(*   reachable   the backend answers the statements sent to it             *)
(*   tableExists the AgentState table has been created                     *)
(*   rows        the rows of AgentState, in insertion order                *)
(*   nextId      the next value of the auto-increment key                  *)
(*   stored      the successful storeCheckpoint calls: [id, payload]       *)
(*   last        the last call made on the provider and its outcome        *)
(*   stmt        the statements that call sent: the result of the          *)
(*               statement and the number of times it was sent             *)
(***************************************************************************)
VARIABLES backend, strictMode, reachable, tableExists, rows, nextId, stored, last, stmt,
          calls, trio, inst

vars == <<backend, strictMode, reachable, tableExists, rows, nextId, stored, last, stmt,
          calls, trio, inst>>

Call(op, outcome, argId, argPayload, retId, retRec, retList) ==
    [op |-> op, outcome |-> outcome, argId |-> argId, argPayload |-> argPayload,
     retId |-> retId, retRec |-> retRec, retList |-> retList]

Statement(result, attempts) == [result |-> result, attempts |-> attempts]

Clients == {"c1", "c2"}

IdleCall ==
    [op |-> "none", pc |-> "idle", payload |-> <<>>, fresh |-> FALSE, saw |-> FALSE,
     base |-> 0, abandoned |-> FALSE, outcome |-> "none", retId |-> <<>>]

FreshStore ==
    [tableExists |-> FALSE, rows |-> <<>>, nextId |-> 1,
     answer |-> Call("none", "none", <<>>, <<>>, <<>>, <<>>, <<>>)]

NotInstalled ==
    [config |-> <<>>, phase |-> "created", available |-> FALSE, registered |-> <<>>]

InitProvider ==
    /\ backend \in Backends
    /\ strictMode \in (IF backend = "mysql" THEN BOOLEAN ELSE {TRUE})
    /\ reachable = TRUE
    /\ tableExists = FALSE
    /\ rows = <<>>
    /\ nextId = 1
    /\ stored = <<>>
    /\ last = Call("none", "none", <<>>, <<>>, <<>>, <<>>, <<>>)
    /\ stmt = Statement("none", 0)
    /\ calls = [c \in Clients |-> IdleCall]

Init ==
    /\ InitProvider
    /\ trio = [b \in Backends |-> FreshStore]
    /\ inst = NotInstalled

(***************************************************************************)
(* Every operation awaits one statement and has no try/catch: a statement  *)
(* that fails rejects the call, and it is sent once.                       *)
(***************************************************************************)
SwallowUnreachable(result) == IF result = "error" THEN "error" ELSE "ok"

Swallow(result) == "ok"

Await(result) == IF result = "ok" THEN "ok" ELSE "error"

AwaitStart(result) == IF result = "ok" THEN "ok" ELSE "error"

Sent(result) == 1

(***************************************************************************)
(* start(): CREATE TABLE IF NOT EXISTS on SQLite and PostgreSQL, a plain   *)
(* CREATE TABLE on MySQL, which fails when the table is already there.     *)
(* The statement never touches the rows of an existing table.              *)
(***************************************************************************)
CreateIfNotExists(b) == b \in {"sqlite", "postgres"}

StartOutcome(b, exists) == IF exists /\ ~CreateIfNotExists(b) THEN "error" ELSE "ok"

RowsAfterRecreate(rs) == <<>>

RowsAfterCreate(rs) == rs

Start ==
    LET result == IF reachable THEN StartOutcome(backend, tableExists) ELSE "unreachable"
    IN  /\ tableExists' = (tableExists \/ reachable)
        /\ rows' = IF reachable THEN RowsAfterCreate(rows) ELSE rows
        /\ stmt' = Statement(result, Sent(result))
        /\ last' = Call("start", AwaitStart(result), <<>>, <<>>, <<>>, <<>>, <<>>)
        /\ UNCHANGED <<backend, strictMode, reachable, nextId, stored, calls, trio, inst>>

(***************************************************************************)
(* storeCheckpoint(checkpoint): one INSERT of the five columns, the JSON   *)
(* columns through JSON.stringify, and the new key rendered as a string.   *)
(* JSON.stringify throws on a value it cannot encode, before any statement *)
(* is built.  JSON.stringify(undefined) is undefined, and the query        *)
(* builder sends an undefined value as NULL (SQLite) or DEFAULT (MySQL,    *)
(* PostgreSQL) for the NOT NULL column config: the statement fails, except *)
(* on a MySQL server without strict mode, which stores the implicit        *)
(* default, the empty text.  A failing INSERT has drawn its key from the   *)
(* sequence on PostgreSQL.                                                 *)
(***************************************************************************)
InsertValues(checkpoint) ==
    [agentId   |-> checkpoint.agentId,
     name      |-> checkpoint.name,
     config    |-> JSONStringify(checkpoint.config),
     state     |-> JSONStringify(<<checkpoint.state>>),
     createdAt |-> checkpoint.createdAt]

SerializablePayload(checkpoint) ==
    /\ checkpoint.config = <<>> \/ Serializable(checkpoint.config[1])
    /\ Serializable(checkpoint.state)

EncodedLenient(checkpoint) ==
    << InsertValues([checkpoint EXCEPT
          !.config = IF @ = <<>> \/ Serializable(@[1]) THEN @ ELSE <<JNull>>,
          !.state  = IF Serializable(@) THEN @ ELSE JNull]) >>

Encoded(checkpoint) ==
    IF SerializablePayload(checkpoint) THEN <<InsertValues(checkpoint)>> ELSE <<>>

NotNullViolated(values) == values.config = <<>> \/ values.state = <<>>

ImplicitDefault(text) == IF text = <<>> THEN <<>> ELSE text[1]

InsertAccepted(b, strict, values) ==
    ~NotNullViolated(values) \/ (b = "mysql" /\ ~strict)

PartialRow(id, values) ==
    [id        |-> id,
     agentId   |-> values.agentId,
     name      |-> values.name,
     config    |-> ImplicitDefault(values.config),
     state     |-> <<>>,
     createdAt |-> values.createdAt]

NewRow(id, values) ==
    [id        |-> id,
     agentId   |-> values.agentId,
     name      |-> values.name,
     config    |-> ImplicitDefault(values.config),
     state     |-> ImplicitDefault(values.state),
     createdAt |-> values.createdAt]

ReplaceInto(rs, row) ==
    Append(SelectSeq(rs, LAMBDA r : r.agentId # row.agentId \/ r.name # row.name), row)

InsertInto(rs, row) == Append(rs, row)

ReusedKey(id) == id

NextAutoIncrement(id) == id + 1

KeyDrawnOnFailure(b) == b = "postgres"

AffectedRowsToString(id) == toString(1)

PaddedIdToString(id) == <<"0">> \o toString(id)

NegatedIdToString(id) == toString(0 - id)

InsertIdToString(id) == toString(id)

StoreCheckpoint(checkpoint) ==
    /\ nextId <= MaxStores
    /\ LET encoded == Encoded(checkpoint)
       IN  IF encoded = <<>>
           THEN /\ stmt' = Statement("none", 0)
                /\ last' = Call("store", "error", <<>>, <<checkpoint>>, <<>>, <<>>, <<>>)
                /\ UNCHANGED <<rows, nextId, stored>>
           ELSE IF ~reachable
           THEN /\ stmt' = Statement("unreachable", Sent("unreachable"))
                /\ last' = Call("store", Await("unreachable"), <<>>, <<checkpoint>>, <<>>, <<>>, <<>>)
                /\ UNCHANGED <<rows, nextId, stored>>
           ELSE IF tableExists /\ InsertAccepted(backend, strictMode, encoded[1])
           THEN /\ rows' = InsertInto(rows, NewRow(nextId, encoded[1]))
                /\ nextId' = NextAutoIncrement(nextId)
                /\ stored' = Append(stored, [id |-> InsertIdToString(nextId), payload |-> checkpoint])
                /\ stmt' = Statement("ok", Sent("ok"))
                /\ last' = Call("store", Await("ok"), <<>>, <<checkpoint>>, InsertIdToString(nextId), <<>>, <<>>)
           ELSE /\ nextId' = IF tableExists /\ KeyDrawnOnFailure(backend)
                             THEN NextAutoIncrement(nextId) ELSE nextId
                /\ stmt' = Statement("error", Sent("error"))
                /\ last' = Call("store", Await("error"), <<>>, <<checkpoint>>, <<>>, <<>>, <<>>)
                /\ UNCHANGED <<rows, stored>>
    /\ UNCHANGED <<backend, strictMode, reachable, tableExists, calls, trio, inst>>

(***************************************************************************)
(* retrieveCheckpoint(id): SELECT ... WHERE id = Number(id) LIMIT 1, null  *)
(* when no row comes back, otherwise the row with its JSON columns parsed. *)
(* A key that is not an integer matches no row on SQLite (NaN is bound as  *)
(* NULL); PostgreSQL rejects it as input for bigint; MySQL compares a      *)
(* fraction and either rejects NaN or matches nothing with it.             *)
(***************************************************************************)
KeyOutcomes(b, key) ==
    CASE key.k = "int"  -> {"select"}
      [] key.k = "frac" -> IF b = "postgres" THEN {"error"} ELSE {"select"}
      [] key.k = "nan"  -> CASE b = "sqlite"   -> {"select"}
                             [] b = "postgres" -> {"error"}
                             [] b = "mysql"    -> {"select", "error"}

Matching(rs, key) ==
    IF key.k = "int" THEN SelectSeq(rs, LAMBDA r : r.id = key.v) ELSE <<>>

Limit(rs, n) == IF Len(rs) <= n THEN rs ELSE SubSeq(rs, 1, n)

DriverInteger(b, n) == IF b = "postgres" THEN Number(toString(n)).v ELSE n

StoredCheckpointOrNull(b, row) ==
    LET config == JSONParse(row.config)
        state  == JSONParse(row.state)
    IN  IF config.ok /\ state.ok
        THEN [outcome |-> "ok",
              retRec  |-> << [id        |-> toString(row.id),
                              name      |-> row.name,
                              agentId   |-> row.agentId,
                              config    |-> config.v,
                              state     |-> state.v,
                              createdAt |-> DriverInteger(b, row.createdAt)] >>]
        ELSE [outcome |-> "ok", retRec |-> <<>>]

StoredCheckpoint(b, row) ==
    LET config == JSONParse(row.config)
        state  == JSONParse(row.state)
    IN  IF config.ok /\ state.ok
        THEN [outcome |-> "ok",
              retRec  |-> << [id        |-> toString(row.id),
                              name      |-> row.name,
                              agentId   |-> row.agentId,
                              config    |-> config.v,
                              state     |-> state.v,
                              createdAt |-> DriverInteger(b, row.createdAt)] >>]
        ELSE [outcome |-> "error", retRec |-> <<>>]

RetrieveResultUnchecked(b, result) ==
    IF Len(result) = 0 THEN [outcome |-> "error", retRec |-> <<>>]
    ELSE StoredCheckpoint(b, result[1])

RetrieveResult(b, result) ==
    IF Len(result) = 0 THEN [outcome |-> "ok", retRec |-> <<>>]
    ELSE StoredCheckpoint(b, result[1])

RowsAfterDelete(rs) == IF rs = <<>> THEN rs ELSE Tail(rs)

RowsAfterSelect(rs) == rs

SelectFailed(exists, k) == ~exists \/ k = "error"

RetrieveAttempt(b, exists, rs, id, k) ==
    IF SelectFailed(exists, k) THEN [outcome |-> "error", retRec |-> <<>>]
    ELSE RetrieveResult(b, Limit(Matching(rs, Number(id)), 1))

RetrieveOutcomes(b, exists, rs, id) ==
    { RetrieveAttempt(b, exists, rs, id, k) : k \in KeyOutcomes(b, Number(id)) }

RetrieveCheckpoint(id) ==
    /\ IF reachable
       THEN \E k \in KeyOutcomes(backend, Number(id)) :
               LET r      == RetrieveAttempt(backend, tableExists, rows, id, k)
                   result == IF SelectFailed(tableExists, k) THEN "error" ELSE "ok"
               IN  /\ last' = Call("retrieve", r.outcome, id, <<>>, <<>>, r.retRec, <<>>)
                   /\ stmt' = Statement(result, Sent(result))
       ELSE /\ last' = Call("retrieve", Await("unreachable"), id, <<>>, <<>>, <<>>, <<>>)
            /\ stmt' = Statement("unreachable", Sent("unreachable"))
    /\ rows' = RowsAfterSelect(rows)
    /\ UNCHANGED <<backend, strictMode, reachable, tableExists, nextId, stored, calls, trio, inst>>

(***************************************************************************)
(* listCheckpoints(): SELECT id, name, agentId, createdAt ... ORDER BY     *)
(* createdAt DESC.  The engine may return rows of equal createdAt in any   *)
(* order.                                                                  *)
(***************************************************************************)
Asc(a, b) == a <= b

Desc(a, b) == a >= b

Orderings(rs) ==
    { p \in [1..Len(rs) -> 1..Len(rs)] :
        /\ \A i, j \in 1..Len(rs) : i # j => p[i] # p[j]
        /\ \A i \in 1..(Len(rs) - 1) : Desc(rs[p[i]].createdAt, rs[p[i + 1]].createdAt) }

ListItemFull(b, row) ==
    [id        |-> toString(row.id),
     name      |-> row.name,
     agentId   |-> row.agentId,
     config    |-> row.config,
     state     |-> row.state,
     createdAt |-> DriverInteger(b, row.createdAt)]

ListItem(b, row) ==
    [id        |-> toString(row.id),
     name      |-> row.name,
     agentId   |-> row.agentId,
     createdAt |-> DriverInteger(b, row.createdAt)]

ListResultsLimited(b, rs) ==
    { IF Len(rs) = 0 THEN <<>> ELSE <<ListItem(b, rs[p[1]])>> : p \in Orderings(rs) }

ListResults(b, rs) ==
    { [i \in 1..Len(rs) |-> ListItem(b, rs[p[i]])] : p \in Orderings(rs) }

ListOutcomesNonEmpty(b, exists, rs) ==
    IF ~exists \/ Len(rs) = 0 THEN {[outcome |-> "error", retList |-> <<>>]}
    ELSE {[outcome |-> "ok", retList |-> items] : items \in ListResults(b, rs)}

ListOutcomesDecoding(b, exists, rs) ==
    IF ~exists \/ (\E i \in DOMAIN rs : ~JSONParse(rs[i].config).ok \/ ~JSONParse(rs[i].state).ok)
    THEN {[outcome |-> "error", retList |-> <<>>]}
    ELSE {[outcome |-> "ok", retList |-> items] : items \in ListResults(b, rs)}

ListOutcomes(b, exists, rs) ==
    IF ~exists THEN {[outcome |-> "error", retList |-> <<>>]}
    ELSE {[outcome |-> "ok", retList |-> items] : items \in ListResults(b, rs)}

ListCheckpoints ==
    /\ IF reachable
       THEN \E r \in ListOutcomes(backend, tableExists, rows) :
               /\ last' = Call("list", r.outcome, <<>>, <<>>, <<>>, <<>>, r.retList)
               /\ stmt' = Statement(r.outcome, Sent(r.outcome))
       ELSE /\ last' = Call("list", Await("unreachable"), <<>>, <<>>, <<>>, <<>>, <<>>)
            /\ stmt' = Statement("unreachable", Sent("unreachable"))
    /\ rows' = RowsAfterSelect(rows)
    /\ UNCHANGED <<backend, strictMode, reachable, tableExists, nextId, stored, calls, trio, inst>>

Next ==
    \/ Start
    \/ \E checkpoint \in Payloads : StoreCheckpoint(checkpoint)
    \/ \E id \in IdInputs : RetrieveCheckpoint(id)
    \/ ListCheckpoints

Spec == Init /\ [][Next]_vars

(***************************************************************************)
(* The environment of the provider: the backend becomes unreachable and    *)
(* reachable again, and an administrator or a fault may damage the state   *)
(* text of a stored row.  No operation of the provider does either.        *)
(***************************************************************************)
FaultPayloads ==
    { NamedCheckpoint("a1", "s1", <<ConfigFoo>>, StateCount,    1000),
      NamedCheckpoint("a2", "s1", <<>>,          StateList,     2000),
      NamedCheckpoint("a1", "s2", <<ConfigFoo>>, StateCircular, 2000) }

FaultIds == { <<"1">>, <<"2">>, <<"9", "9", "9", "9", "9", "9">>, <<"a", "b", "c">> }

DamagedText == <<"{", "\"", "c">>

Disconnect ==
    /\ reachable
    /\ reachable' = FALSE
    /\ UNCHANGED <<backend, strictMode, tableExists, rows, nextId, stored, last, stmt, calls, trio, inst>>

Reconnect ==
    /\ ~reachable
    /\ reachable' = TRUE
    /\ UNCHANGED <<backend, strictMode, tableExists, rows, nextId, stored, last, stmt, calls, trio, inst>>

Corrupt(i) ==
    /\ i \in DOMAIN rows
    /\ rows[i].state # DamagedText
    /\ rows' = [rows EXCEPT ![i].state = DamagedText]
    /\ UNCHANGED <<backend, strictMode, reachable, tableExists, nextId, stored, last, stmt, calls, trio, inst>>

NextFaulty ==
    \/ Start
    \/ \E checkpoint \in FaultPayloads : StoreCheckpoint(checkpoint)
    \/ \E id \in FaultIds : RetrieveCheckpoint(id)
    \/ ListCheckpoints
    \/ Disconnect
    \/ Reconnect
    \/ \E i \in 1..MaxStores : Corrupt(i)

SpecFaulty == Init /\ [][NextFaulty]_vars

(***************************************************************************)
(* Overlapping calls.  Every operation is an async function that awaits    *)
(* one statement: a caller can issue a second call while the statement of  *)
(* the first is still in flight, on the same storage object or on another  *)
(* one over the same database.  calls[c] follows the call of caller c from *)
(* its invocation (the statement is sent) to the engine running the        *)
(* statement (the call returns).  A caller may stop waiting for a store    *)
(* it has issued (a timeout around the promise): nothing in the provider   *)
(* cancels the statement, which the engine still runs as one INSERT.       *)
(* base is the number of rows at invocation, fresh whether the table was   *)
(* missing then.  SQLite and MySQL run a CREATE TABLE as                   *)
(* one step; PostgreSQL looks for the table first and creates it in a      *)
(* second step, where the catalog's unique index rejects a table that      *)
(* another session created in between.                                     *)
(***************************************************************************)
ConcurrentPayloads ==
    { NamedCheckpoint("a1", "s1", <<ConfigFoo>>,   StateCount,    1000),
      NamedCheckpoint("a1", "s1", <<ConfigEmpty>>, StateText,     1000),
      NamedCheckpoint("a1", "s2", <<ConfigFoo>>,   StateCircular, 2000) }

CanInvoke(c) == calls[c].pc \in {"idle", "returned"}

InFlightStores == Cardinality({c \in Clients : calls[c].op = "store" /\ calls[c].pc = "sent"})

SeparateCheck(b) == b = "postgres"

CreateAfterCheck(saw, exists) ==
    IF saw THEN "ok" ELSE IF exists THEN "error" ELSE "ok"

InvokeStart(c) ==
    /\ CanInvoke(c)
    /\ calls' = [calls EXCEPT ![c] = [IdleCall EXCEPT !.op = "start", !.pc = "sent",
                                                      !.fresh = ~tableExists]]
    /\ UNCHANGED <<backend, strictMode, reachable, tableExists, rows, nextId, stored,
                   last, stmt, trio, inst>>

InvokeStore(c, checkpoint) ==
    /\ CanInvoke(c)
    /\ nextId + InFlightStores <= MaxStores
    /\ calls' = [calls EXCEPT ![c] =
                    IF Encoded(checkpoint) = <<>>
                    THEN [IdleCall EXCEPT !.op = "store", !.pc = "returned",
                                          !.payload = <<checkpoint>>, !.outcome = "error"]
                    ELSE [IdleCall EXCEPT !.op = "store", !.pc = "sent",
                                          !.payload = <<checkpoint>>,
                                          !.fresh = ~tableExists,
                                          !.base = Len(rows)]]
    /\ UNCHANGED <<backend, strictMode, reachable, tableExists, rows, nextId, stored,
                   last, stmt, trio, inst>>

Abandon(c) ==
    /\ calls[c].op = "store"
    /\ calls[c].pc = "sent"
    /\ ~calls[c].abandoned
    /\ calls' = [calls EXCEPT ![c].abandoned = TRUE]
    /\ UNCHANGED <<backend, strictMode, reachable, tableExists, rows, nextId, stored,
                   last, stmt, trio, inst>>

EngineCheck(c) ==
    /\ calls[c].op = "start"
    /\ calls[c].pc = "sent"
    /\ SeparateCheck(backend)
    /\ calls' = [calls EXCEPT ![c].pc = "checked", ![c].saw = tableExists]
    /\ UNCHANGED <<backend, strictMode, reachable, tableExists, rows, nextId, stored,
                   last, stmt, trio, inst>>

EngineExecuteStart(c) ==
    /\ calls[c].op = "start"
    /\ calls[c].pc = (IF SeparateCheck(backend) THEN "checked" ELSE "sent")
    /\ LET result == IF SeparateCheck(backend)
                     THEN CreateAfterCheck(calls[c].saw, tableExists)
                     ELSE StartOutcome(backend, tableExists)
       IN  calls' = [calls EXCEPT ![c].pc = "returned", ![c].outcome = AwaitStart(result)]
    /\ tableExists' = TRUE
    /\ rows' = RowsAfterCreate(rows)
    /\ UNCHANGED <<backend, strictMode, reachable, nextId, stored, last, stmt, trio, inst>>

EngineExecuteStore(c) ==
    /\ calls[c].op = "store"
    /\ calls[c].pc = "sent"
    /\ LET checkpoint == calls[c].payload[1]
           values     == Encoded(checkpoint)[1]
       IN  IF tableExists /\ InsertAccepted(backend, strictMode, values)
           THEN /\ rows' = InsertInto(rows, NewRow(nextId, values))
                /\ nextId' = NextAutoIncrement(nextId)
                /\ stored' = Append(stored, [id |-> InsertIdToString(nextId),
                                             payload |-> checkpoint])
                /\ calls' = [calls EXCEPT ![c].pc = "returned",
                                          ![c].outcome = Await("ok"),
                                          ![c].retId = InsertIdToString(nextId)]
           ELSE /\ nextId' = IF tableExists /\ KeyDrawnOnFailure(backend)
                             THEN NextAutoIncrement(nextId) ELSE nextId
                /\ calls' = [calls EXCEPT ![c].pc = "returned",
                                          ![c].outcome = Await("error")]
                /\ UNCHANGED <<rows, stored>>
    /\ UNCHANGED <<backend, strictMode, reachable, tableExists, last, stmt, trio, inst>>

NextConcurrent ==
    \/ \E c \in Clients : InvokeStart(c)
    \/ \E c \in Clients : \E checkpoint \in ConcurrentPayloads : InvokeStore(c, checkpoint)
    \/ \E c \in Clients : Abandon(c)
    \/ \E c \in Clients : EngineCheck(c)
    \/ \E c \in Clients : EngineExecuteStart(c)
    \/ \E c \in Clients : EngineExecuteStore(c)

SpecConcurrent == Init /\ [][NextConcurrent]_vars

(***************************************************************************)
(* Three fresh stores, one per backend, driven by the same calls: trio[b]  *)
(* is the database of the store of backend b and the answer it gave to     *)
(* the last call.  Each store answers as its own provider does; the MySQL  *)
(* one runs in the SQL mode given by strictMode.                           *)
(***************************************************************************)
EquivalencePayloads ==
    { NamedCheckpoint("a1", "s1", <<ConfigFoo>>, StateCount, 1000),
      NamedCheckpoint("a2", "s2", <<>>,          StateText,  2000) }

EquivalenceIds == { <<"1">>, <<"2">>, <<"a", "b", "c">> }

StrictFor(b) == IF b = "mysql" THEN strictMode ELSE TRUE

StartedStore(b, st) ==
    [tableExists |-> TRUE,
     rows        |-> RowsAfterCreate(st.rows),
     nextId      |-> st.nextId,
     answer      |-> Call("start", AwaitStart(StartOutcome(b, st.tableExists)),
                          <<>>, <<>>, <<>>, <<>>, <<>>)]

StoreInto(b, st, checkpoint) ==
    LET encoded == Encoded(checkpoint)
    IN  IF encoded # <<>> /\ st.tableExists /\ InsertAccepted(b, StrictFor(b), encoded[1])
        THEN [st EXCEPT !.rows   = InsertInto(st.rows, NewRow(st.nextId, encoded[1])),
                        !.nextId = NextAutoIncrement(st.nextId),
                        !.answer = Call("store", Await("ok"), <<>>, <<checkpoint>>,
                                        InsertIdToString(st.nextId), <<>>, <<>>)]
        ELSE [st EXCEPT !.nextId = IF encoded # <<>> /\ st.tableExists /\ KeyDrawnOnFailure(b)
                                   THEN NextAutoIncrement(st.nextId) ELSE st.nextId,
                        !.answer = Call("store", Await("error"), <<>>, <<checkpoint>>,
                                        <<>>, <<>>, <<>>)]

StartAll ==
    /\ trio' = [b \in Backends |-> StartedStore(b, trio[b])]
    /\ UNCHANGED <<backend, strictMode, reachable, tableExists, rows, nextId, stored,
                   last, stmt, calls, inst>>

StoreAll(checkpoint) ==
    /\ \A b \in Backends : trio[b].nextId <= MaxStores
    /\ trio' = [b \in Backends |-> StoreInto(b, trio[b], checkpoint)]
    /\ UNCHANGED <<backend, strictMode, reachable, tableExists, rows, nextId, stored,
                   last, stmt, calls, inst>>

RetrieveAll(id) ==
    /\ \E r \in [Backends -> UNION {RetrieveOutcomes(b, trio[b].tableExists, trio[b].rows, id) :
                                        b \in Backends}] :
          /\ \A b \in Backends :
                r[b] \in RetrieveOutcomes(b, trio[b].tableExists, trio[b].rows, id)
          /\ trio' = [b \in Backends |->
                        [trio[b] EXCEPT !.rows   = RowsAfterSelect(@),
                                        !.answer = Call("retrieve", r[b].outcome, id, <<>>,
                                                        <<>>, r[b].retRec, <<>>)]]
    /\ UNCHANGED <<backend, strictMode, reachable, tableExists, rows, nextId, stored,
                   last, stmt, calls, inst>>

ListAll ==
    /\ \E r \in [Backends -> UNION {ListOutcomes(b, trio[b].tableExists, trio[b].rows) :
                                        b \in Backends}] :
          /\ \A b \in Backends :
                r[b] \in ListOutcomes(b, trio[b].tableExists, trio[b].rows)
          /\ trio' = [b \in Backends |->
                        [trio[b] EXCEPT !.rows   = RowsAfterSelect(@),
                                        !.answer = Call("list", r[b].outcome, <<>>, <<>>,
                                                        <<>>, <<>>, r[b].retList)]]
    /\ UNCHANGED <<backend, strictMode, reachable, tableExists, rows, nextId, stored,
                   last, stmt, calls, inst>>

NextEquivalence ==
    \/ StartAll
    \/ \E checkpoint \in EquivalencePayloads : StoreAll(checkpoint)
    \/ \E id \in EquivalenceIds : RetrieveAll(id)
    \/ ListAll

SpecEquivalence == Init /\ [][NextEquivalence]_vars

(***************************************************************************)
(* install(): with a checkpoint configuration present it waits for the     *)
(* AgentCheckpointService and then, in one callback, walks                 *)
(* config.providers in key order and registers a store for every entry of  *)
(* a known type.  inst.config is absent (<<>>) or holds the providers as a *)
(* sequence of name and type with distinct names, each entry valid for its *)
(* type; inst.registered records the registerProvider calls in order, each *)
(* with the backend of the store constructed for it.  The service is added *)
(* to the team by its own package, before or after install runs.           *)
(***************************************************************************)
ProviderNames == {"main", "backup", "archive"}

ProviderTypes == Backends \cup {"memory"}

ProviderLists ==
    { p \in UNION {[1..n -> [name : ProviderNames, type : ProviderTypes]] : n \in 0..MaxProviders} :
        \A i, j \in DOMAIN p : i # j => p[i].name # p[j].name }

Configs == {<<>>} \cup {<<p>> : p \in ProviderLists}

InitInstall ==
    /\ InitProvider
    /\ trio = [b \in Backends |-> FreshStore]
    /\ inst \in {[NotInstalled EXCEPT !.config = cfg] : cfg \in Configs}

SelectStorageOrDefault(type) ==
    IF type = "mysql" THEN <<"mysql">>
    ELSE IF type = "postgres" THEN <<"postgres">>
    ELSE <<"sqlite">>

SelectStorage(type) ==
    IF type = "sqlite" THEN <<"sqlite">>
    ELSE IF type = "mysql" THEN <<"mysql">>
    ELSE IF type = "postgres" THEN <<"postgres">>
    ELSE <<>>

Registrations(providers) ==
    LET known == SelectSeq(providers, LAMBDA e : SelectStorage(e.type) # <<>>)
    IN  [i \in 1..Len(known) |->
            [name |-> known[i].name, backend |-> SelectStorage(known[i].type)[1]]]

Immediately(available) == TRUE

Resolved(available) == available

Install ==
    /\ inst.phase = "created"
    /\ inst' = [inst EXCEPT !.phase = IF inst.config # <<>> THEN "waiting" ELSE "skipped"]
    /\ UNCHANGED <<backend, strictMode, reachable, tableExists, rows, nextId, stored,
                   last, stmt, calls, trio>>

ServiceAdded ==
    /\ ~inst.available
    /\ inst' = [inst EXCEPT !.available = TRUE]
    /\ UNCHANGED <<backend, strictMode, reachable, tableExists, rows, nextId, stored,
                   last, stmt, calls, trio>>

RegisterProviders ==
    /\ inst.phase = "waiting"
    /\ Resolved(inst.available)
    /\ inst' = [inst EXCEPT !.phase = "registered",
                            !.registered = Registrations(inst.config[1])]
    /\ UNCHANGED <<backend, strictMode, reachable, tableExists, rows, nextId, stored,
                   last, stmt, calls, trio>>

NextInstall ==
    \/ Install
    \/ ServiceAdded
    \/ RegisterProviders

SpecInstall == InitInstall /\ [][NextInstall]_vars

(***************************************************************************)
(* Properties.                                                             *)
(***************************************************************************)
ReturnedIds == {stored[i].id : i \in DOMAIN stored}

StoredUnder(id) == {i \in DOMAIN stored : stored[i].id = id}

NullText == <<"n", "u", "l", "l">>

ConfigOf(payload) == IF payload.config = <<>> THEN JNull ELSE payload.config[1]

RoundTrips(rec, payload) ==
    /\ rec.state = payload.state
    /\ rec.config = ConfigOf(payload)
    /\ rec.agentId = payload.agentId
    /\ rec.name = payload.name
    /\ rec.createdAt = payload.createdAt

\* C1: with the schema in place, storeCheckpoint of any JSON-serializable
\* payload (config present or not) returns an id, and retrieveCheckpoint of an id returned by
\* storeCheckpoint returns a record whose state and config equal the
\* payload's and whose agentId, name and createdAt are unchanged, whatever
\* else was stored before or after.
C1_RoundTrip ==
    /\ (last.op = "store" /\ tableExists /\ SerializablePayload(last.argPayload[1])) =>
          last.outcome = "ok"
    /\ (last.op = "retrieve" /\ last.argId \in ReturnedIds) =>
          /\ last.outcome = "ok"
          /\ last.retRec # <<>>
          /\ \A i \in StoredUnder(last.argId) : RoundTrips(last.retRec[1], stored[i].payload)

\* C2: storeCheckpoint of a payload without config succeeds and stores the
\* text "null" in the config column, and retrieveCheckpoint of the returned
\* id returns a record with no config instead of an error.
C2_AbsentConfig ==
    /\ (last.op = "store" /\ tableExists /\ last.argPayload[1].config = <<>>) =>
          /\ last.outcome = "ok"
          /\ rows # <<>>
          /\ rows[Len(rows)].config = NullText
    /\ (last.op = "retrieve"
        /\ \E i \in StoredUnder(last.argId) : stored[i].payload.config = <<>>) =>
          /\ last.outcome = "ok"
          /\ last.retRec # <<>>
          /\ last.retRec[1].config = JNull

\* C3: the identifiers returned by the successful storeCheckpoint calls on
\* one backend are pairwise distinct, whatever other calls are interleaved.
C3_IdsDistinct ==
    \A i, j \in DOMAIN stored : i # j => stored[i].id # stored[j].id

C3_Witness ==
    /\ Len(stored) >= 2
    /\ last.op = "store"
    /\ last.outcome = "ok"

WellFormedId(id) == id # <<>> /\ AllDigits(id) /\ toString(DigitsValue(id)) = id

\* C4: retrieveCheckpoint of a well-formed numeric id that matches no stored
\* row (such as "999999") returns null and raises no error.
C4_MissingRowIsNull ==
    (/\ last.op = "retrieve"
     /\ tableExists
     /\ WellFormedId(last.argId)
     /\ \A i \in DOMAIN rows : rows[i].id # DigitsValue(last.argId)) =>
        /\ last.outcome = "ok"
        /\ last.retRec = <<>>

C4_Witness ==
    /\ last.op = "retrieve"
    /\ last.argId = <<"9", "9", "9", "9", "9", "9">>
    /\ rows # <<>>
    /\ last.outcome = "ok"
    /\ last.retRec = <<>>

\* C5: retrieveCheckpoint of any id string that storeCheckpoint never
\* returned, malformed strings included, returns absent and raises no error.
C5_UnknownIdIsAbsent ==
    (last.op = "retrieve" /\ tableExists /\ last.argId \notin ReturnedIds) =>
        /\ last.outcome = "ok"
        /\ last.retRec = <<>>

\* C6: whenever retrieveCheckpoint(id) returns a record, the record's id is
\* the id string that was passed in.
C6_ExactKeyMatch ==
    (last.op = "retrieve" /\ last.outcome = "ok" /\ last.retRec # <<>>) =>
        last.retRec[1].id = last.argId

DistinctCreatedAt ==
    \A i, j \in DOMAIN rows : i # j => rows[i].createdAt # rows[j].createdAt

\* C7: when the stored checkpoints have pairwise distinct createdAt values,
\* listCheckpoints returns the items in strictly descending createdAt order,
\* whatever the insertion order.
C7_ListingOrder ==
    (last.op = "list" /\ last.outcome = "ok" /\ DistinctCreatedAt) =>
        \A i, j \in DOMAIN last.retList :
            i < j => last.retList[i].createdAt > last.retList[j].createdAt

C7_Witness ==
    /\ last.op = "list"
    /\ last.outcome = "ok"
    /\ DistinctCreatedAt
    /\ Len(last.retList) >= 3
    /\ rows[1].createdAt < rows[2].createdAt
    /\ rows[3].createdAt < rows[2].createdAt

ItemsFor(id) == {i \in DOMAIN last.retList : last.retList[i].id = id}

\* C8: listCheckpoints returns exactly one item per stored row, and each
\* item's id, agentId, name and createdAt are those of its row; every
\* checkpoint whose storeCheckpoint has returned appears in the listing.
C8_ListingComplete ==
    (last.op = "list" /\ tableExists) =>
        /\ last.outcome = "ok"
        /\ Len(last.retList) = Len(rows)
        /\ \A j \in DOMAIN rows :
              /\ Cardinality(ItemsFor(toString(rows[j].id))) = 1
              /\ \A i \in ItemsFor(toString(rows[j].id)) :
                    /\ last.retList[i].agentId = rows[j].agentId
                    /\ last.retList[i].name = rows[j].name
                    /\ last.retList[i].createdAt = rows[j].createdAt
        /\ \A h \in DOMAIN stored :
              /\ Cardinality(ItemsFor(stored[h].id)) = 1
              /\ \A i \in ItemsFor(stored[h].id) :
                    /\ last.retList[i].agentId = stored[h].payload.agentId
                    /\ last.retList[i].name = stored[h].payload.name
                    /\ last.retList[i].createdAt = stored[h].payload.createdAt

C8_Witness ==
    /\ last.op = "list"
    /\ last.outcome = "ok"
    /\ Len(stored) >= 2
    /\ Len(last.retList) = Len(rows)
    /\ last.retList[1].id = stored[Len(stored)].id

\* C9: every item returned by listCheckpoints has exactly the fields id,
\* agentId, name and createdAt; none carries a state or a config field.
C9_ListingOmission ==
    last.op = "list" =>
        \A i \in DOMAIN last.retList :
            DOMAIN last.retList[i] = {"id", "agentId", "name", "createdAt"}

C9_Witness ==
    /\ last.op = "list"
    /\ Len(last.retList) >= 1
    /\ "state" \notin DOMAIN last.retList[1]
    /\ "config" \notin DOMAIN last.retList[1]

\* C10: on a store whose schema has been ensured and in which no checkpoint
\* was ever stored, listCheckpoints returns the empty sequence and raises no
\* error.
C10_EmptyListing ==
    (last.op = "list" /\ tableExists /\ rows = <<>> /\ stored = <<>>) =>
        /\ last.outcome = "ok"
        /\ last.retList = <<>>

C10_Witness ==
    /\ last.op = "list"
    /\ tableExists
    /\ nextId = 1
    /\ last.outcome = "ok"
    /\ last.retList = <<>>

\* C11: a start() made when the table already exists (a second start after
\* a first successful one) raises no error and leaves every row present and
\* unchanged, on each of the three backends.
C11_IdempotentStart ==
    [][(tableExists /\ last'.op = "start") =>
          (last'.outcome = "ok" /\ rows' = rows)]_vars

\* C12: two start() calls issued concurrently against the same backend with
\* no table (both sent before the engine ran either) both complete without
\* error and the table exists afterwards, whatever the order in which the
\* engine runs them.
C12_ConcurrentStart ==
    (\A c \in Clients : calls[c].op = "start" /\ calls[c].fresh /\ calls[c].pc = "returned") =>
        /\ \A c \in Clients : calls[c].outcome = "ok"
        /\ tableExists

\* C13: when the table-creation statement of start() fails, start() fails
\* towards its caller; start() never completes successfully with the table
\* missing.
C13_StartFailurePropagates ==
    last.op = "start" =>
        /\ stmt.result # "ok" => last.outcome = "error"
        /\ last.outcome = "ok" => tableExists

C13_Witness ==
    /\ last.op = "start"
    /\ stmt.result = "unreachable"
    /\ last.outcome = "error"
    /\ ~tableExists

\* C14: each successful storeCheckpoint adds exactly one new row and leaves
\* every row that existed before the call unchanged in all its columns.
C14_OneRowAdded ==
    [][(last'.op = "store" /\ last'.outcome = "ok" /\ stored' # stored) =>
          /\ Len(rows') = Len(rows) + 1
          /\ SubSeq(rows', 1, Len(rows)) = rows]_vars

C14_Witness ==
    /\ last.op = "store"
    /\ last.outcome = "ok"
    /\ Len(rows) >= 2
    /\ rows[1].agentId = rows[2].agentId
    /\ rows[1].name = rows[2].name

\* C15: when state or config cannot be JSON-encoded, storeCheckpoint fails
\* with an error, sends no statement, inserts no row and consumes no
\* identifier: the table and the key sequence are as before the call.
C15_EncodingFailureHasNoEffect ==
    [][(last'.op = "store" /\ ~SerializablePayload(last'.argPayload[1])) =>
          /\ last'.outcome = "error"
          /\ stmt'.attempts = 0
          /\ rows' = rows
          /\ nextId' = nextId
          /\ stored' = stored]_vars

C15_Witness ==
    /\ last.op = "store"
    /\ ~SerializablePayload(last.argPayload[1])
    /\ last.outcome = "error"
    /\ tableExists
    /\ rows # <<>>

InvalidJSON(row) == ~JSONParse(row.config).ok \/ ~JSONParse(row.state).ok

InvalidMatch(rs, id) ==
    LET m == Matching(rs, Number(id))
    IN  m # <<>> /\ InvalidJSON(m[1])

\* C16: when the row matched by retrieveCheckpoint holds state or config
\* text that is not valid JSON, retrieveCheckpoint fails with an error; it
\* returns neither null nor a partially decoded record.
C16_InvalidJSONIsAnError ==
    [][(/\ last'.op = "retrieve"
        /\ rows' = rows
        /\ reachable /\ reachable'
        /\ tableExists
        /\ InvalidMatch(rows, last'.argId)) =>
          /\ last'.outcome = "error"
          /\ last'.retRec = <<>>]_vars

C16_Witness ==
    /\ last.op = "retrieve"
    /\ stmt.result = "ok"
    /\ last.outcome = "error"
    /\ InvalidMatch(rows, last.argId)
    /\ ~JSONParse(Matching(rows, Number(last.argId))[1].state).ok

EnvironmentStep ==
    /\ last' = last
    /\ stmt' = stmt
    /\ reachable' # reachable \/ rows' # rows

\* C17: when the backend is unreachable, storeCheckpoint (of an encodable
\* payload), retrieveCheckpoint and listCheckpoints each fail towards the
\* caller after a single attempt: no retry, no absent answer, no empty
\* listing, and no row added.
C17_UnreachableIsAnError ==
    [][(/\ ~reachable
        /\ ~EnvironmentStep
        /\ last'.op \in {"store", "retrieve", "list"}
        /\ last'.op = "store" => SerializablePayload(last'.argPayload[1])) =>
          /\ last'.outcome = "error"
          /\ stmt'.attempts = 1
          /\ last'.retId = <<>>
          /\ last'.retRec = <<>>
          /\ last'.retList = <<>>
          /\ rows' = rows
          /\ nextId' = nextId]_vars

C17_Witness ==
    /\ ~reachable
    /\ last.op = "retrieve"
    /\ stmt.result = "unreachable"
    /\ stmt.attempts = 1
    /\ last.outcome = "error"
    /\ last.argId \in {stored[i].id : i \in DOMAIN stored}

\* C18: no call of start, storeCheckpoint, retrieveCheckpoint or
\* listCheckpoints removes a stored row or changes any of its columns, and a
\* checkpoint retrievable under an id stays retrievable under that id with
\* the same content (what a retrieval answers depends on the table alone, so
\* the steps to examine are those that change the table).
C18_AppendOnly ==
    [][/\ Len(rows') >= Len(rows)
       /\ SubSeq(rows', 1, Len(rows)) = rows
       /\ (rows' # rows \/ tableExists' # tableExists) =>
             \A id \in ReturnedIds :
                 \A r \in RetrieveOutcomes(backend, tableExists, rows, id) :
                     (r.outcome = "ok" /\ r.retRec # <<>>) =>
                         RetrieveOutcomes(backend, tableExists', rows', id) = {r}]_vars

C18_Witness ==
    /\ last.op = "start"
    /\ Len(rows) >= 2
    /\ \E id \in ReturnedIds : \E r \in RetrieveOutcomes(backend, tableExists, rows, id) :
          r.outcome = "ok" /\ r.retRec # <<>>

\* C19: the identifiers returned by successive successful storeCheckpoint
\* calls on one backend, read as integers, are strictly increasing.
C19_IdsIncrease ==
    \A i, j \in DOMAIN stored :
        i < j => /\ Number(stored[i].id).k = "int"
                 /\ Number(stored[j].id).k = "int"
                 /\ Number(stored[i].id).v < Number(stored[j].id).v

C19_Witness ==
    /\ Len(stored) >= 2
    /\ nextId > Len(stored) + 1
    /\ Number(stored[1].id).v < Number(stored[2].id).v

ExamplePayload == NamedCheckpoint("a1", "s1", <<>>, StateCount, 1000)

ExampleRecord ==
    [id |-> <<"1">>, name |-> "s1", agentId |-> "a1", config |-> JNull,
     state |-> StateCount, createdAt |-> 1000]

\* C20: on a fresh store (schema ensured, no rows) the first storeCheckpoint
\* of {agentId:"a1", name:"s1", state:{count:1}, createdAt:1000} returns "1",
\* and retrieveCheckpoint("1") then returns that record with id "1" and no
\* config.
C20_ExampleScenario ==
    [][(/\ tableExists /\ rows = <<>> /\ nextId = 1
        /\ last'.op = "store"
        /\ last'.argPayload = <<ExamplePayload>>) =>
          /\ last'.outcome = "ok"
          /\ last'.retId = <<"1">>
          /\ RetrieveOutcomes(backend, tableExists', rows', <<"1">>)
                = {[outcome |-> "ok", retRec |-> <<ExampleRecord>>]}]_vars

SameItems(l1, l2) ==
    /\ Len(l1) = Len(l2)
    /\ {l1[k] : k \in DOMAIN l1} = {l2[k] : k \in DOMAIN l2}

SameAnswer(a1, a2) ==
    /\ a1.op = a2.op
    /\ a1.outcome = a2.outcome
    /\ a1.retId = a2.retId
    /\ a1.retRec = a2.retRec
    /\ SameItems(a1.retList, a2.retList)

\* C21: fresh SQLite, MySQL and PostgreSQL stores given the same sequence
\* of start, storeCheckpoint, retrieveCheckpoint and listCheckpoints calls
\* answer every call with the same outcome and the same result (listings
\* compared up to the order of rows of equal createdAt).
C21_BackendEquivalence ==
    \A b1, b2 \in Backends : SameAnswer(trio[b1].answer, trio[b2].answer)

OwnRow(row, id, checkpoint) ==
    /\ toString(row.id) = id
    /\ row.agentId = checkpoint.agentId
    /\ row.name = checkpoint.name
    /\ <<row.config>> = JSONStringify(checkpoint.config)
    /\ <<row.state>> = JSONStringify(<<checkpoint.state>>)
    /\ row.createdAt = checkpoint.createdAt

Overlapping(c, d) ==
    /\ c # d
    /\ \A e \in {c, d} :
          /\ calls[e].op = "store"
          /\ calls[e].pc = "returned"
          /\ ~calls[e].fresh
          /\ calls[e].payload[1].config # <<>>
          /\ SerializablePayload(calls[e].payload[1])
    /\ calls[c].base = calls[d].base

\* C22: when two storeCheckpoint calls with encodable payloads (config
\* present) run concurrently against the same backend with the table in
\* place, in every interleaving both succeed, their ids differ, and each id
\* names exactly one row, which holds the fields of that call's payload.
C22_ConcurrentStores ==
    \A c, d \in Clients :
        Overlapping(c, d) =>
            /\ calls[c].outcome = "ok" /\ calls[d].outcome = "ok"
            /\ calls[c].retId # calls[d].retId
            /\ \A e \in {c, d} :
                  /\ Cardinality({j \in DOMAIN rows : toString(rows[j].id) = calls[e].retId}) = 1
                  /\ \E j \in DOMAIN rows : OwnRow(rows[j], calls[e].retId, calls[e].payload[1])

C22_Witness ==
    \E c, d \in Clients :
        /\ Overlapping(c, d)
        /\ calls[c].payload # calls[d].payload
        /\ calls[c].outcome = "ok"
        /\ calls[d].outcome = "ok"

CompleteRow(row, id, checkpoint) ==
    /\ row.id = id
    /\ row.agentId = checkpoint.agentId
    /\ row.name = checkpoint.name
    /\ row.createdAt = checkpoint.createdAt
    /\ checkpoint.config # <<>> => <<row.config>> = JSONStringify(checkpoint.config)
    /\ <<row.state>> = JSONStringify(<<checkpoint.state>>)

\* C23: whether or not the caller has abandoned an in-flight
\* storeCheckpoint, every step leaves the table unchanged or appends the
\* complete row of a store in flight; the rows already present stay as they
\* are and no partly written row ever appears.
C23_AbandonedStoreIsAtomic ==
    [][\/ rows' = rows
       \/ /\ Len(rows') = Len(rows) + 1
          /\ SubSeq(rows', 1, Len(rows)) = rows
          /\ \E c \in Clients :
                /\ calls[c].op = "store"
                /\ calls[c].pc = "sent"
                /\ CompleteRow(rows'[Len(rows')], nextId, calls[c].payload[1])]_vars

C23_Witness ==
    \E c \in Clients :
        /\ calls[c].op = "store"
        /\ calls[c].abandoned
        /\ calls[c].pc = "returned"
        /\ Len(rows) >= 2
        /\ \E j \in DOMAIN rows : OwnRow(rows[j], calls[c].retId, calls[c].payload[1])


\* C24: a provider just constructed against an empty database, with no
\* start() call made, accepts storeCheckpoint of an encodable payload with a
\* config and returns a defined id (which retrieveCheckpoint then finds).
C24_UseWithoutStart ==
    (/\ last.op = "store"
     /\ ~tableExists
     /\ SerializablePayload(last.argPayload[1])
     /\ last.argPayload[1].config # <<>>) =>
        /\ last.outcome = "ok"
        /\ last.retId # <<>>

Projection(item, row) ==
    /\ DOMAIN item = {"id", "name", "agentId", "createdAt"}
    /\ Number(item.id) = [k |-> "int", v |-> row.id]
    /\ item.name = row.name
    /\ item.agentId = row.agentId
    /\ item.createdAt = row.createdAt

\* C25: listCheckpoints never decodes state or config: with a reachable
\* backend and the table in place, a listing made while some row holds
\* state or config text that is not valid JSON succeeds and returns one item
\* per row, the projection of that row, the invalid one included.
C25_ListingIgnoresJSON ==
    [][(/\ last'.op = "list"
        /\ ~EnvironmentStep
        /\ reachable
        /\ tableExists
        /\ \E j \in DOMAIN rows : InvalidJSON(rows[j])) =>
          /\ last'.outcome = "ok"
          /\ Len(last'.retList) = Len(rows)
          /\ \A j \in DOMAIN rows :
                \E k \in DOMAIN last'.retList : Projection(last'.retList[k], rows[j])]_vars

C25_Witness ==
    /\ last.op = "list"
    /\ last.outcome = "ok"
    /\ Len(rows) >= 2
    /\ Len(last.retList) = Len(rows)
    /\ \E j \in DOMAIN rows :
          /\ rows[j].config = <<>>
          /\ InvalidJSON(rows[j])
          /\ \E k \in DOMAIN last.retList : Projection(last.retList[k], rows[j])


Canonical(text) ==
    /\ text # <<>>
    /\ AllDigits(text)
    /\ Len(text) = 1 \/ text[1] # "0"

\* C26: for every stored row, the id returned by storeCheckpoint, the id of
\* the record retrieveCheckpoint returns for it and the id of its item in
\* listCheckpoints are one and the same string: the decimal rendering
\* (digits only, no leading zero) of the row's integer key.
C26_IdNormalization ==
    /\ \A i \in DOMAIN stored :
          /\ Canonical(stored[i].id)
          /\ \E j \in DOMAIN rows :
                /\ Number(stored[i].id) = [k |-> "int", v |-> rows[j].id]
                /\ rows[j].agentId = stored[i].payload.agentId
                /\ rows[j].name = stored[i].payload.name
                /\ rows[j].createdAt = stored[i].payload.createdAt
    /\ (last.op = "retrieve" /\ last.retRec # <<>>) =>
          /\ Canonical(last.retRec[1].id)
          /\ Number(last.retRec[1].id) = Number(last.argId)
          /\ last.argId \in ReturnedIds => last.retRec[1].id = last.argId
    /\ (last.op = "list" /\ last.outcome = "ok") =>
          /\ Len(last.retList) = Len(stored)
          /\ \A i \in DOMAIN stored :
                \E k \in DOMAIN last.retList :
                    /\ last.retList[k].id = stored[i].id
                    /\ last.retList[k].name = stored[i].payload.name
                    /\ last.retList[k].agentId = stored[i].payload.agentId

C26_Witness ==
    /\ Len(stored) >= 2
    /\ last.op = "retrieve"
    /\ last.argId = stored[2].id
    /\ last.retRec # <<>>
    /\ last.retRec[1].id = stored[2].id

KnownNames(providers) ==
    {providers[i].name : i \in {j \in DOMAIN providers : providers[j].type \in Backends}}

\* C27: once the registration callback has run over a valid configuration,
\* the registered names are exactly the names in config.providers whose
\* type is "sqlite", "mysql" or "postgres"; each is registered exactly once,
\* with a store of the backend its type names; entries of another type are
\* skipped.
C27_SelectorRegistration ==
    inst.phase = "registered" =>
        LET providers == inst.config[1]
            reg       == inst.registered
        IN  /\ {reg[k].name : k \in DOMAIN reg} = KnownNames(providers)
            /\ \A n \in KnownNames(providers) :
                  Cardinality({k \in DOMAIN reg : reg[k].name = n}) = 1
            /\ \A k \in DOMAIN reg :
                  \E i \in DOMAIN providers :
                      /\ providers[i].name = reg[k].name
                      /\ providers[i].type = reg[k].backend

C27_Witness ==
    /\ inst.phase = "registered"
    /\ Len(inst.registered) = 1
    /\ \E i \in DOMAIN inst.config[1] : inst.config[1][i].type \notin Backends

\* C28: no store is constructed or registered before the
\* AgentCheckpointService is available, and none ever is when the
\* checkpoint configuration is absent.
C28_SelectorOrdering ==
    /\ inst.registered # <<>> => (inst.available /\ inst.config # <<>>)
    /\ inst.phase = "registered" => inst.available
    /\ inst.config = <<>> => inst.phase \in {"created", "skipped"}

C28_Witness ==
    /\ inst.phase = "waiting"
    /\ ~inst.available
    /\ inst.config # <<>>
    /\ KnownNames(inst.config[1]) # {}
    /\ inst.registered = <<>>


\* C29: retrieveCheckpoint and listCheckpoints are read-only: whether the
\* call returns a result, returns absent or fails, the rows, the existence
\* of the table and the key the next storeCheckpoint will get are the same
\* after the call as before.
C29_ReadsAreReadOnly ==
    [][(last'.op \in {"retrieve", "list"}) =>
          /\ rows' = rows
          /\ tableExists' = tableExists
          /\ nextId' = nextId]_vars

C29_Witness ==
    /\ last.op = "retrieve"
    /\ last.outcome = "error"
    /\ tableExists
    /\ rows # <<>>
    /\ nextId > 1

=============================================================================
